---- MODULE Spec2Model ----
(***************************************************************************)
(* Huffman coder (treenode.c): the min-heap, buildHuffmanTree, the code    *)
(* derivation printHCodeForCharacter and the encodeFile / decodeFile       *)
(* loops, as a state machine.                                              *)
(*                                                                         *)
(* Nodes live in an arena `node` (a sequence of records, in malloc order;  *)
(* the program never frees a node); a node pointer is an index into it and *)
(* NULL is 0.  The heap's backing array is a function on 0..capacity-1, as *)
(* in the C source.  Weights are naturals (doubles holding exact values).  *)
(* The alphabet size (ASCII_SIZE in the program) is the input n; the plan   *)
(* "ascii" runs one command of the program on the full 128-symbol alphabet, *)
(* with its fopen / fclose calls and the text files it writes.             *)
(***************************************************************************)
EXTENDS Naturals, Integers, Sequences, FiniteSets, TLC

VARIABLES
    n,            \* size: number of (item, freq) pairs given to buildHuffmanTree
    freq,         \* probabilities[0..n-1], the table read from the probability file
    plan,         \* "roundtrip": -e then -d on its output; "decode": -d on a given file;
                  \* "heap": a client calling insertMinHeap / extractMin directly;
                  \* "ascii": one command of the program on the 128-symbol alphabet
    cmd,          \* the command running: "e" (encodeFile), "d" (decodeFile), "h",
                  \* "s" (generateAndPrintHuffmanCodes), "p" (implementP)
    pc,           \* position inside the running command
    node,         \* the arena of struct MinHNode
    array,        \* minHeap->array
    size,         \* minHeap->size
    capacity,     \* minHeap->capacity
    left,         \* buildHuffmanTree's local `left` (last extractMin result)
    right,        \* buildHuffmanTree's local `right`
    root,         \* the root returned by buildHuffmanTree to the running command
    built,        \* roots returned by buildHuffmanTree so far, in call order
    src,          \* bytes the encoder has read from the data file
    enc,          \* contents of the encoded file written by encodeFile
    din,          \* contents of the file decodeFile reads
    dpos,         \* number of characters decodeFile has read
    currentNode,  \* decodeFile's currentNode
    dec,          \* contents of the decoded file written by decodeFile
    open,         \* the FILE handles fopen has returned and fclose has not closed
    lines,        \* lines written to the text output (codes.txt, the probability file)
    li            \* generateAndPrintHuffmanCodes' loop index i

vars == <<n, freq, plan, cmd, pc, node, array, size, capacity, left, right,
          root, built, src, enc, din, dpos, currentNode, dec, open, lines, li>>

(* ------------------------------- bounds -------------------------------- *)
MaxN == 3
MaxW == 2
MaxLen == 2
MaxBits == 3
MaxIns == 2

(* ------------------------------ constants ------------------------------ *)
Placeholder == 36

NULL == 0

Chars == {"0", "1", "x"}

(* Integer division as C defines it: truncation toward zero. *)
CDiv(a, b) == IF a >= 0 THEN a \div b ELSE -((-a) \div b)

SeqsUpTo(S, k) == UNION {[1..m -> S] : m \in 0..k}

(* ascii_characters[i] = (char)i *)
AsciiCharacters(sz) == [i \in 0..(sz - 1) |-> i]

(* ------------------------------- the heap ------------------------------ *)

(* newNode: the arena with one more node, children NULL. *)
NewNode(nd, item, f) ==
    Append(nd, [item |-> item, freq |-> f, left |-> NULL, right |-> NULL])

(* Mutant: the second store of the swap is missing, so a pointer is lost. *)
SwapMinHNodeLost(arr, a, b) == [arr EXCEPT ![a] = arr[b]]

SwapMinHNode(arr, a, b) == [arr EXCEPT ![a] = arr[b], ![b] = arr[a]]

(* Mutant: equal frequencies are ordered by the parity of the left child's
   address. *)
RECURSIVE MinHeapifyAddrTie(_, _, _, _)
MinHeapifyAddrTie(nd, arr, sz, idx) ==
    LET l == 2 * idx + 1
        r == 2 * idx + 2
        s1 == IF l < sz /\ (\/ nd[arr[l]].freq < nd[arr[idx]].freq
                            \/ /\ nd[arr[l]].freq = nd[arr[idx]].freq
                               /\ arr[l] % 2 = 0)
              THEN l ELSE idx
        smallest == IF r < sz /\ nd[arr[r]].freq < nd[arr[s1]].freq THEN r ELSE s1
    IN  IF smallest # idx
        THEN MinHeapifyAddrTie(nd, SwapMinHNode(arr, smallest, idx), sz, smallest)
        ELSE arr

(* Mutant: the right child wins when it is equal to the smallest so far. *)
RECURSIVE MinHeapifyRightTie(_, _, _, _)
MinHeapifyRightTie(nd, arr, sz, idx) ==
    LET l == 2 * idx + 1
        r == 2 * idx + 2
        s1 == IF l < sz /\ nd[arr[l]].freq < nd[arr[idx]].freq THEN l ELSE idx
        smallest == IF r < sz /\ nd[arr[r]].freq <= nd[arr[s1]].freq THEN r ELSE s1
    IN  IF smallest # idx
        THEN MinHeapifyRightTie(nd, SwapMinHNode(arr, smallest, idx), sz, smallest)
        ELSE arr

RECURSIVE MinHeapify(_, _, _, _)
MinHeapify(nd, arr, sz, idx) ==
    LET l == 2 * idx + 1
        r == 2 * idx + 2
        s1 == IF l < sz /\ nd[arr[l]].freq < nd[arr[idx]].freq THEN l ELSE idx
        smallest == IF r < sz /\ nd[arr[r]].freq < nd[arr[s1]].freq THEN r ELSE s1
    IN  IF smallest # idx
        THEN MinHeapify(nd, SwapMinHNode(arr, smallest, idx), sz, smallest)
        ELSE arr

(* Mutant: the loop stops one element early. *)
CheckSizeTwo(sz) == sz = 2

CheckSizeOne(sz) == sz = 1

(* Mutant: the call of minHeapify after the removal is missing. *)
ExtractMinNoHeapify(nd, arr, sz) ==
    [node |-> arr[0], array |-> [arr EXCEPT ![0] = arr[sz - 1]], size |-> sz - 1]

(* Mutant: --minHeap->size is missing. *)
ExtractMinKeepSize(nd, arr, sz) ==
    LET temp == arr[0]
        a1 == [arr EXCEPT ![0] = arr[sz - 1]]
    IN  [node |-> temp, array |-> MinHeapify(nd, a1, sz - 1, 0), size |-> sz]

(* extractMin, for size >= 1. *)
ExtractMin(nd, arr, sz) ==
    LET temp == arr[0]
        a1 == [arr EXCEPT ![0] = arr[sz - 1]]
    IN  [node |-> temp, array |-> MinHeapify(nd, a1, sz - 1, 0), size |-> sz - 1]

(* Mutant: the new node is stored at the end without moving up. *)
SiftUpNone(nd, arr, i, id) == [arr EXCEPT ![i] = id]

(* Mutant: the new node also passes a parent of equal frequency. *)
RECURSIVE SiftUpOrEqual(_, _, _, _)
SiftUpOrEqual(nd, arr, i, id) ==
    IF i # 0 /\ nd[id].freq <= nd[arr[CDiv(i - 1, 2)]].freq
    THEN SiftUpOrEqual(nd, [arr EXCEPT ![i] = arr[CDiv(i - 1, 2)]], CDiv(i - 1, 2), id)
    ELSE [arr EXCEPT ![i] = id]

RECURSIVE SiftUp(_, _, _, _)
SiftUp(nd, arr, i, id) ==
    IF i # 0 /\ nd[id].freq < nd[arr[CDiv(i - 1, 2)]].freq
    THEN SiftUp(nd, [arr EXCEPT ![i] = arr[CDiv(i - 1, 2)]], CDiv(i - 1, 2), id)
    ELSE [arr EXCEPT ![i] = id]

(* insertMinHeap, for size < capacity. *)
InsertMinHeap(nd, arr, sz, id) ==
    [array |-> SiftUp(nd, arr, sz, id), size |-> sz + 1]

(* The loop of buildMinHeap; i stays inside the array, and naming the array
   here has each iteration's result computed before the next one starts. *)
RECURSIVE BuildLoop(_, _, _, _)
BuildLoop(nd, arr, sz, i) ==
    IF i >= 0 /\ i \in DOMAIN arr
    THEN BuildLoop(nd, MinHeapify(nd, arr, sz, i), sz, i - 1)
    ELSE arr

(* Mutant: the array is left in allocation order. *)
BuildMinHeapNone(nd, arr, sz) == arr

BuildMinHeap(nd, arr, sz) == BuildLoop(nd, arr, sz, CDiv((sz - 1) - 1, 2))

IsLeaf(nd, r) == nd[r].left = NULL /\ nd[r].right = NULL

(* The newNode calls of iterations i..sz-1 of createAndBuildMinHeap's loop. *)
AllocLeaves(nd, item, f, sz, i) ==
    nd \o [k \in 1..(sz - i) |-> NewNode(<<>>, item[i + k - 1], f[i + k - 1])[1]]

(* Mutant: the loop runs once more, on the first symbol again, and the heap
   holds size + 1 nodes. *)
CreateAndBuildMinHeapExtra(nd, item, f, sz) ==
    LET nd1 == NewNode(AllocLeaves(nd, item, f, sz, 0), item[0], f[0])
        a0 == [i \in 0..sz |-> Len(nd) + i + 1]
    IN  [node |-> nd1, array |-> BuildMinHeap(nd1, a0, sz + 1), size |-> sz + 1,
         capacity |-> sz + 1]

(* createAndBuildMinHeap: node i of the call is the (i+1)-th allocated. *)
CreateAndBuildMinHeap(nd, item, f, sz) ==
    LET nd1 == AllocLeaves(nd, item, f, sz, 0)
        a0 == [i \in 0..(sz - 1) |-> Len(nd) + i + 1]
    IN  [node |-> nd1, array |-> BuildMinHeap(nd1, a0, sz), size |-> sz,
         capacity |-> sz]

(* Mutant: top->right is never set. *)
NewTopNoRight(nd, l, r) ==
    LET nd1 == NewNode(nd, Placeholder, nd[l].freq + nd[r].freq)
    IN  [nd1 EXCEPT ![Len(nd1)].left = l]

(* Mutant: the new node takes the left child's weight alone. *)
NewTopLeftFreq(nd, l, r) ==
    LET nd1 == NewNode(nd, Placeholder, nd[l].freq)
    IN  [nd1 EXCEPT ![Len(nd1)].left = l, ![Len(nd1)].right = r]

(* Mutant: the two children are stored the other way round. *)
NewTopSwapped(nd, l, r) ==
    LET nd1 == NewNode(nd, Placeholder, nd[l].freq + nd[r].freq)
    IN  [nd1 EXCEPT ![Len(nd1)].left = r, ![Len(nd1)].right = l]

(* The internal node of one merge step: newNode('$', left->freq + right->freq)
   with its two children set. *)
NewTop(nd, l, r) ==
    LET nd1 == NewNode(nd, Placeholder, nd[l].freq + nd[r].freq)
    IN  [nd1 EXCEPT ![Len(nd1)].left = l, ![Len(nd1)].right = r]

(* ----------------------------- code derivation ------------------------- *)

(* Mutant: the newline of printNewline = 1 is written in the encoder too. *)
PrintArrayNewline(arr) ==
    [k \in 1..Len(arr) |-> IF arr[k] = 0 THEN "0" ELSE "1"] \o <<"\n">>

(* printArray with printNewline = 0: each int written with "%d". *)
PrintArray(arr) == [k \in 1..Len(arr) |-> IF arr[k] = 0 THEN "0" ELSE "1"]

(* Mutant: arr[top] = 0 on the way right as well. *)
RECURSIVE PrintHCodeAllZero(_, _, _, _)
PrintHCodeAllZero(nd, r, target, arr) ==
    LET outL == IF nd[r].left # NULL
                THEN PrintHCodeAllZero(nd, nd[r].left, target, Append(arr, 0))
                ELSE <<>>
        outR == IF nd[r].right # NULL
                THEN PrintHCodeAllZero(nd, nd[r].right, target, Append(arr, 0))
                ELSE <<>>
        self == IF nd[r].left = NULL /\ nd[r].right = NULL /\ nd[r].item = target
                THEN PrintArray(arr) ELSE <<>>
    IN  outL \o outR \o self

(* Mutant: a leaf also matches the byte one above its item. *)
RECURSIVE PrintHCodeNextItem(_, _, _, _)
PrintHCodeNextItem(nd, r, target, arr) ==
    LET outL == IF nd[r].left # NULL
                THEN PrintHCodeNextItem(nd, nd[r].left, target, Append(arr, 0))
                ELSE <<>>
        outR == IF nd[r].right # NULL
                THEN PrintHCodeNextItem(nd, nd[r].right, target, Append(arr, 1))
                ELSE <<>>
        self == IF IsLeaf(nd, r) /\ (nd[r].item = target \/ nd[r].item + 1 = target)
                THEN PrintArray(arr) ELSE <<>>
    IN  outL \o outR \o self

(* printHCodeForCharacter: what it writes to `output`; arr holds arr[0..top). *)
RECURSIVE PrintHCodeForCharacter(_, _, _, _)
PrintHCodeForCharacter(nd, r, target, arr) ==
    LET outL == IF nd[r].left # NULL
                THEN PrintHCodeForCharacter(nd, nd[r].left, target, Append(arr, 0))
                ELSE <<>>
        outR == IF nd[r].right # NULL
                THEN PrintHCodeForCharacter(nd, nd[r].right, target, Append(arr, 1))
                ELSE <<>>
        self == IF IsLeaf(nd, r) /\ nd[r].item = target THEN PrintArray(arr) ELSE <<>>
    IN  outL \o outR \o self

(* ------------------------------- Init ---------------------------------- *)

InitCommon ==
    /\ n \in 1..MaxN
    /\ freq \in [0..(n - 1) -> 0..MaxW]
    /\ node = <<>>
    /\ left = NULL /\ right = NULL /\ root = NULL
    /\ built = <<>>
    /\ src = <<>> /\ enc = <<>> /\ dec = <<>>
    /\ dpos = 0 /\ currentNode = NULL
    /\ open = {} /\ lines = <<>> /\ li = 0

Init ==
    /\ InitCommon
    /\ array = <<>> /\ size = 0 /\ capacity = 0
    /\ pc = "start"
    /\ \/ plan = "roundtrip" /\ cmd = "e" /\ din = <<>>
       \/ plan = "decode" /\ cmd = "d" /\ din \in SeqsUpTo(Chars, MaxBits)

(* --------------------------- buildHuffmanTree -------------------------- *)

CreateHeap ==
    /\ pc = "start"
    /\ LET h == CreateAndBuildMinHeap(node, AsciiCharacters(n), freq, n)
       IN  /\ node' = h.node
           /\ array' = h.array
           /\ size' = h.size
           /\ capacity' = h.capacity
    /\ pc' = "loop"
    /\ UNCHANGED <<open, lines, li, n, freq, plan, cmd, left, right, root, built, src, enc, din,
                   dpos, currentNode, dec>>

ExtractLeft ==
    /\ pc = "loop"
    /\ ~CheckSizeOne(size)
    /\ size >= 1
    /\ LET e == ExtractMin(node, array, size)
       IN  /\ left' = e.node
           /\ array' = e.array
           /\ size' = e.size
    /\ pc' = "left"
    /\ UNCHANGED <<open, lines, li, n, freq, plan, cmd, node, capacity, right, root, built, src,
                   enc, din, dpos, currentNode, dec>>

ExtractRight ==
    /\ pc = "left"
    /\ size >= 1
    /\ LET e == ExtractMin(node, array, size)
       IN  /\ right' = e.node
           /\ array' = e.array
           /\ size' = e.size
    /\ pc' = "right"
    /\ UNCHANGED <<open, lines, li, n, freq, plan, cmd, node, capacity, left, root, built, src,
                   enc, din, dpos, currentNode, dec>>

(* top = newNode(...); insertMinHeap(minHeap, top).  insertMinHeap has no test
   of capacity: with size = capacity its stores start at array[capacity],
   outside the storage (undefined behaviour: a fault, or the stores land
   elsewhere and size is one more); the build is not followed further. *)
MergeInsert ==
    /\ pc = "right"
    /\ LET nd1 == NewTop(node, left, right)
           h == InsertMinHeap(nd1, array, size, Len(nd1))
       IN  /\ node' = nd1
           /\ IF size < capacity
              THEN /\ array' = h.array
                   /\ size' = h.size
                   /\ pc' = "loop"
              ELSE /\ array' = array
                   /\ size' = size + 1
                   /\ pc' \in {"crashed", "ub"}
    /\ UNCHANGED <<open, lines, li, n, freq, plan, cmd, capacity, left, right, root, built, src,
                   enc, din, dpos, currentNode, dec>>

(* Where the caller of buildHuffmanTree goes on: to its fopen calls, which
   the small-alphabet plans pass over. *)
AfterBuild(pl, c) ==
    IF pl = "ascii" THEN (IF c = "s" THEN "openout" ELSE "openin")
    ELSE IF c = "e" THEN "encode" ELSE "decode"

(* return extractMin(minHeap) *)
ReturnRoot ==
    /\ pc = "loop"
    /\ CheckSizeOne(size)
    /\ LET e == ExtractMin(node, array, size)
       IN  /\ root' = e.node
           /\ built' = Append(built, e.node)
           /\ array' = e.array
           /\ size' = e.size
           /\ currentNode' = IF cmd = "d" THEN e.node ELSE currentNode
    /\ pc' = AfterBuild(plan, cmd)
    /\ UNCHANGED <<open, lines, li, n, freq, plan, cmd, node, capacity, left, right,
                   src, enc, din, dpos, dec>>

(* ------------------------------ encodeFile ----------------------------- *)

(* The bytes a data file is made of.  With the alphabet cut down to n symbols
   the value n stands for a byte whose (char) value is no alphabet symbol; on
   the 128-symbol alphabet 200 is such a byte, and 36 is '$'. *)
DataBytes(pl, sz) == IF pl = "ascii" THEN {36, 97, 98, 200} ELSE 0..sz

(* One iteration of the fgetc loop: byte ch is read. *)
EncodeByte ==
    /\ pc = "encode"
    /\ Len(src) < MaxLen
    /\ \E ch \in DataBytes(plan, n) :
          /\ src' = Append(src, ch)
          /\ enc' = enc \o PrintHCodeForCharacter(node, root, ch, <<>>)
    /\ UNCHANGED <<open, lines, li, n, freq, plan, cmd, pc, node, array, size,
                   capacity, left, right, root, built, din, dpos, currentNode, dec>>

(* EOF on the data file: both files are closed.  In the round trip the next
   command, decodeFile on the file just written, starts. *)
EncodeEOF ==
    /\ pc = "encode"
    /\ open' = open \ {"in", "out"}
    /\ IF plan = "roundtrip"
       THEN cmd' = "d" /\ din' = enc /\ pc' = "start"
       ELSE cmd' = cmd /\ din' = din /\ pc' = "done"
    /\ UNCHANGED <<lines, li, n, freq, plan, node, array, size, capacity, left, right, root,
                   built, src, enc, dpos, currentNode, dec>>

(* ------------------------------ decodeFile ----------------------------- *)

(* Mutant: '0' goes right and '1' goes left. *)
DecodeMoveSwapped(nd, cur, bit) ==
    IF bit = "0" /\ nd[cur].right # NULL THEN nd[cur].right
    ELSE IF bit = "1" /\ nd[cur].left # NULL THEN nd[cur].left
    ELSE cur

(* The position after reading `bit` at position cur (lines 305-309). *)
DecodeMove(nd, cur, bit) ==
    IF bit = "0" /\ nd[cur].left # NULL THEN nd[cur].left
    ELSE IF bit = "1" /\ nd[cur].right # NULL THEN nd[cur].right
    ELSE cur

(* Mutant: currentNode = root after the fputc is missing. *)
DecodeCharNoReset ==
    /\ pc = "decode"
    /\ dpos < Len(din)
    /\ LET bit == din[dpos + 1]
           cur == DecodeMove(node, currentNode, bit)
       IN  /\ dec' = IF IsLeaf(node, cur) THEN Append(dec, node[cur].item) ELSE dec
           /\ currentNode' = cur
    /\ dpos' = dpos + 1
    /\ UNCHANGED <<open, lines, li, n, freq, plan, cmd, pc, node, array, size, capacity,
                   left, right, root, built, src, enc, din>>

(* One iteration of the fgetc loop of decodeFile. *)
DecodeChar ==
    /\ pc = "decode"
    /\ dpos < Len(din)
    /\ LET bit == din[dpos + 1]
           cur == DecodeMove(node, currentNode, bit)
       IN  IF IsLeaf(node, cur)
           THEN /\ dec' = Append(dec, node[cur].item)
                /\ currentNode' = root
           ELSE /\ dec' = dec
                /\ currentNode' = cur
    /\ dpos' = dpos + 1
    /\ UNCHANGED <<open, lines, li, n, freq, plan, cmd, pc, node, array, size, capacity, left,
                   right, root, built, src, enc, din>>

(* Mutant: at EOF a position left inside the tree is flushed as a byte. *)
DecodeEOFFlush ==
    /\ pc = "decode"
    /\ dpos = Len(din)
    /\ open' = open \ {"in", "out"}
    /\ pc' = "done"
    /\ dec' = IF currentNode # root THEN Append(dec, node[currentNode].item) ELSE dec
    /\ UNCHANGED <<lines, li, n, freq, plan, cmd, node, array, size, capacity, left, right,
                   root, built, src, enc, din, dpos, currentNode>>

DecodeEOF ==
    /\ pc = "decode"
    /\ dpos = Len(din)
    /\ open' = open \ {"in", "out"}
    /\ pc' = "done"
    /\ UNCHANGED <<lines, li, n, freq, plan, cmd, node, array, size, capacity, left, right,
                   root, built, src, enc, din, dpos, currentNode, dec>>

Next ==
    \/ CreateHeap
    \/ ExtractLeft
    \/ ExtractRight
    \/ MergeInsert
    \/ ReturnRoot
    \/ EncodeByte
    \/ EncodeEOF
    \/ DecodeChar
    \/ DecodeEOF

Spec == Init /\ [][Next]_vars

(* --------- buildHuffmanTree alone, run to completion (first call) ------- *)

InitBuild == Init /\ plan = "roundtrip"

NextBuild ==
    \/ CreateHeap
    \/ ExtractLeft
    \/ ExtractRight
    \/ MergeInsert
    \/ ReturnRoot

(* The program is one thread that runs each call to its end. *)
BuildSpec == InitBuild /\ [][NextBuild]_vars /\ WF_vars(NextBuild)

(* ------------- a client of the heap: any insert / extract --------------- *)

InitHeap ==
    /\ InitCommon
    /\ plan = "heap" /\ cmd = "h" /\ din = <<>>
    /\ array = <<>> /\ size = 0 /\ capacity = 0
    /\ pc = "start"

HeapCreate ==
    /\ plan = "heap"
    /\ CreateHeap

HeapExtract ==
    /\ plan = "heap"
    /\ pc = "loop"
    /\ size >= 1
    /\ LET e == ExtractMin(node, array, size)
       IN  /\ left' = e.node
           /\ array' = e.array
           /\ size' = e.size
    /\ UNCHANGED <<open, lines, li, n, freq, plan, cmd, pc, node, capacity, right, root, built,
                   src, enc, din, dpos, currentNode, dec>>

HeapInsert ==
    /\ plan = "heap"
    /\ pc = "loop"
    /\ size < capacity
    /\ Len(node) < n + MaxIns
    /\ \E f \in 0..MaxW :
          LET nd1 == NewNode(node, Placeholder, f)
              h == InsertMinHeap(nd1, array, size, Len(nd1))
          IN  /\ node' = nd1
              /\ array' = h.array
              /\ size' = h.size
    /\ UNCHANGED <<open, lines, li, n, freq, plan, cmd, pc, capacity, left, right, root, built,
                   src, enc, din, dpos, currentNode, dec>>

NextHeap ==
    \/ HeapCreate
    \/ HeapExtract
    \/ HeapInsert

HeapSpec == InitHeap /\ [][NextHeap]_vars

(* ------- a client that does not keep extractMin's precondition --------- *)

(* minHeap->size is an unsigned int: --size at 0 wraps to UINT_MAX, 2^32 - 1.
   The checker's integers end at 2^31 - 1, so a size of 2^31 or more is written
   as the int with the same 32 bits: UINT_MAX is -1. *)
UnsignedDec(x) == x - 1

(* extractMin with size = 0.  There is no test of size (lines 66-74): temp is
   the stale array[0], array[size - 1] is read at index UINT_MAX, outside the
   storage (undefined behaviour: a fault, or some value g lands in array[0]),
   and --size wraps.  The client stops here. *)
HeapExtractEmpty ==
    /\ plan = "heap"
    /\ pc = "loop"
    /\ size = 0
    /\ \/ /\ pc' = "crashed"
          /\ UNCHANGED <<array, size, left>>
       \/ /\ pc' = "ub"
          /\ left' = array[0]
          /\ \E g \in 0..Len(node) : array' = [array EXCEPT ![0] = g]
          /\ size' = UnsignedDec(size)
    /\ UNCHANGED <<open, lines, li, n, freq, plan, cmd, node, capacity, right, root, built,
                   src, enc, din, dpos, currentNode, dec>>

NextHeapU ==
    \/ HeapCreate
    \/ HeapExtract
    \/ HeapInsert
    \/ HeapExtractEmpty

HeapSpecU == InitHeap /\ [][NextHeapU]_vars

(* --------- a client calling minHeapify on an array in any order -------- *)

(* One symbol more than MaxN, so that position 1 has a child of its own. *)
InitSift ==
    /\ plan = "sift" /\ cmd = "h"
    /\ n \in 1..(MaxN + 1)
    /\ freq \in [0..(n - 1) -> 0..MaxW]
    /\ node = <<>> /\ array = <<>> /\ size = 0 /\ capacity = 0
    /\ left = NULL /\ right = NULL /\ root = NULL
    /\ built = <<>>
    /\ src = <<>> /\ enc = <<>> /\ din = <<>> /\ dec = <<>>
    /\ dpos = 0 /\ currentNode = NULL
    /\ open = {} /\ lines = <<>> /\ li = 0
    /\ pc = "start"

(* createMinH and the newNode loop of createAndBuildMinHeap, in allocation
   order, without the call of buildMinHeap. *)
SiftCreate ==
    /\ plan = "sift"
    /\ pc = "start"
    /\ node' = AllocLeaves(node, AsciiCharacters(n), freq, n, 0)
    /\ array' = [i \in 0..(n - 1) |-> Len(node) + i + 1]
    /\ size' = n
    /\ capacity' = n
    /\ pc' = "loop"
    /\ UNCHANGED <<open, lines, li, n, freq, plan, cmd, left, right, root, built,
                   src, enc, din, dpos, currentNode, dec>>

(* minHeapify(minHeap, idx) for any position idx of the heap. *)
SiftHeapify ==
    /\ plan = "sift"
    /\ pc = "loop"
    /\ \E idx \in 0..(size - 1) : array' = MinHeapify(node, array, size, idx)
    /\ UNCHANGED <<open, lines, li, n, freq, plan, cmd, pc, node, size, capacity,
                   left, right, root, built, src, enc, din, dpos, currentNode, dec>>

NextSift ==
    \/ SiftCreate
    \/ SiftHeapify

SiftSpec == InitSift /\ [][NextSift]_vars

(* ============ one command of the program, 128-symbol alphabet ========== *)

ASCII_SIZE == 128

(* The probability tables tried.  PositiveTables: periodic tables of weights
   1..MaxW+1.  SparseTables: the table of the sample "aaab" (3/4 and 1/4 scaled
   by 4; scaling every weight by one factor changes no comparison) and the
   all-zero table. *)
PositiveTables ==
    {[i \in 0..(ASCII_SIZE - 1) |-> 1 + ((a * i) % (MaxW + 1))] : a \in 0..MaxW}

TableAaab ==
    [i \in 0..(ASCII_SIZE - 1) |-> IF i = 97 THEN 3 ELSE IF i = 98 THEN 1 ELSE 0]

TableZero == [i \in 0..(ASCII_SIZE - 1) |-> 0]

SparseTables == {TableAaab, TableZero}

(* The trees of SparseTables are 78 and 127 levels deep; the commands that
   traverse the whole tree recursively (-s, -e) are run on PositiveTables, the
   decoder, which descends one level per character read, on every table. *)
InitAscii ==
    /\ plan = "ascii"
    /\ n = ASCII_SIZE
    /\ \/ cmd \in {"s", "e", "d"} /\ freq \in PositiveTables /\ pc = "openprob"
       \/ cmd = "d" /\ freq \in SparseTables /\ pc = "openprob"
       \/ cmd = "p" /\ freq = TableZero /\ pc = "p_in"
    /\ node = <<>> /\ array = <<>> /\ size = 0 /\ capacity = 0
    /\ left = NULL /\ right = NULL /\ root = NULL
    /\ built = <<>>
    /\ src = <<>> /\ enc = <<>> /\ din = <<>> /\ dec = <<>>
    /\ dpos = 0 /\ currentNode = NULL
    /\ open = {} /\ lines = <<>> /\ li = 0

(* readProbabilitiesFromFile, fopen: NULL ends the process. *)
OpenProb ==
    /\ pc = "openprob"
    /\ \/ open' = open \cup {"prob"} /\ pc' = "readprob"
       \/ open' = open /\ pc' = "exit_failure"
    /\ UNCHANGED <<lines, li, n, freq, plan, cmd, node, array, size, capacity,
                   left, right, root, built, src, enc, din, dpos, currentNode, dec>>

(* readProbabilitiesFromFile, the fscanf loop: 128 values are read and the file
   is closed, or one fscanf fails (file short or unparseable) and the process
   exits at line 123 with no fclose. *)
ReadProb ==
    /\ pc = "readprob"
    /\ \/ open' = open \ {"prob"} /\ pc' = "start"
       \/ open' = open /\ pc' = "exit_failure"
    /\ UNCHANGED <<lines, li, n, freq, plan, cmd, node, array, size, capacity,
                   left, right, root, built, src, enc, din, dpos, currentNode, dec>>

(* fopen of the input file in encodeFile / decodeFile; the encoded file's
   contents are whatever the file system holds. *)
OpenInput ==
    /\ pc = "openin"
    /\ \/ /\ open' = open \cup {"in"}
          /\ pc' = "openout"
          /\ IF cmd = "d" THEN din' \in SeqsUpTo(Chars, MaxBits) ELSE din' = din
       \/ open' = open /\ pc' = "exit_failure" /\ din' = din
    /\ UNCHANGED <<lines, li, n, freq, plan, cmd, node, array, size, capacity,
                   left, right, root, built, src, enc, dpos, currentNode, dec>>

(* fopen of the output file in generateAndPrintHuffmanCodes / encodeFile /
   decodeFile: NULL ends the process with no fclose of the input. *)
OpenOutput ==
    /\ pc = "openout"
    /\ \/ /\ open' = open \cup {"out"}
          /\ pc' = IF cmd = "s" THEN "list" ELSE IF cmd = "e" THEN "encode" ELSE "decode"
       \/ open' = open /\ pc' = "exit_failure"
    /\ UNCHANGED <<lines, li, n, freq, plan, cmd, node, array, size, capacity,
                   left, right, root, built, src, enc, din, dpos, currentNode, dec>>

(* Mutant: the range starts after the space character. *)
PrintableAfterSpace(v) == v > 32 /\ v <= 126

(* asciiValue >= 32 && asciiValue <= 126 *)
Printable(v) == v >= 32 /\ v <= 126

NoCode == <<"No code">>

(* printHCodeForCharacter with printNewline = 1: the lines it writes to
   `output`, one per matching leaf. *)
RECURSIVE PrintHCodeLines(_, _, _, _)
PrintHCodeLines(nd, r, target, arr) ==
    LET outL == IF nd[r].left # NULL
                THEN PrintHCodeLines(nd, nd[r].left, target, Append(arr, 0))
                ELSE <<>>
        outR == IF nd[r].right # NULL
                THEN PrintHCodeLines(nd, nd[r].right, target, Append(arr, 1))
                ELSE <<>>
        self == IF IsLeaf(nd, r) /\ nd[r].item = target
                THEN <<PrintArray(arr)>> ELSE <<>>
    IN  outL \o outR \o self

(* One iteration of the listing loop of generateAndPrintHuffmanCodes. *)
ListLine ==
    /\ pc = "list"
    /\ li < ASCII_SIZE
    /\ LET asciiValue == AsciiCharacters(ASCII_SIZE)[li]
       IN  lines' = IF Printable(asciiValue)
                    THEN lines \o PrintHCodeLines(node, root, asciiValue, <<>>)
                    ELSE Append(lines, NoCode)
    /\ li' = li + 1
    /\ UNCHANGED <<open, n, freq, plan, cmd, pc, node, array, size, capacity,
                   left, right, root, built, src, enc, din, dpos, currentNode, dec>>

(* fclose(output) after the loop. *)
ListClose ==
    /\ pc = "list"
    /\ li = ASCII_SIZE
    /\ open' = open \ {"out"}
    /\ pc' = "done"
    /\ UNCHANGED <<lines, li, n, freq, plan, cmd, node, array, size, capacity,
                   left, right, root, built, src, enc, din, dpos, currentNode, dec>>

(* ------------------------- implementP (probability.c) ------------------ *)

(* readFile: fopen of the sample; its bytes are whatever the file holds. *)
POpenIn ==
    /\ pc = "p_in"
    /\ \/ /\ open' = open \cup {"in"}
          /\ src' \in SeqsUpTo(DataBytes(plan, n), MaxLen)
          /\ pc' = "p_out"
       \/ open' = open /\ src' = src /\ pc' = "exit_failure"
    /\ UNCHANGED <<lines, li, n, freq, plan, cmd, node, array, size, capacity,
                   left, right, root, built, enc, din, dpos, currentNode, dec>>

(* writeFile: NULL ends the process with the sample still open. *)
POpenOut ==
    /\ pc = "p_out"
    /\ \/ open' = open \cup {"out"} /\ pc' = "p_calc"
       \/ open' = open /\ pc' = "exit_failure"
    /\ UNCHANGED <<lines, li, n, freq, plan, cmd, node, array, size, capacity,
                   left, right, root, built, src, enc, din, dpos, currentNode, dec>>

Count(s, b) == Cardinality({k \in 1..Len(s) : s[k] = b})

(* "%.8f" of c / t: the value in units of 10^-8, rounded to nearest. *)
Fixed8(c, t) == (2 * c * 100000000 + t) \div (2 * t)

(* calculateProbabilities.  getFreq counts every byte; frequencies[r]++ for a
   byte r >= 128 is a store outside the array (undefined behaviour: a fault, or
   the store lands elsewhere and the run goes on).  An empty sample ends the
   process at line 45 with both files open. *)
PCalc ==
    /\ pc = "p_calc"
    /\ \/ /\ \E k \in 1..Len(src) : src[k] >= ASCII_SIZE
          /\ pc' = "crashed"
          /\ UNCHANGED <<open, lines>>
       \/ /\ Len(src) = 0
          /\ pc' = "exit_failure"
          /\ UNCHANGED <<open, lines>>
       \/ /\ Len(src) # 0
          /\ lines' = [i \in 1..ASCII_SIZE |-> Fixed8(Count(src, i - 1), Len(src))]
          /\ open' = open \ {"in", "out"}
          /\ pc' = "done"
    /\ UNCHANGED <<li, n, freq, plan, cmd, node, array, size, capacity,
                   left, right, root, built, src, enc, din, dpos, currentNode, dec>>

NextAscii ==
    \/ OpenProb
    \/ ReadProb
    \/ CreateHeap
    \/ ExtractLeft
    \/ ExtractRight
    \/ MergeInsert
    \/ ReturnRoot
    \/ OpenInput
    \/ OpenOutput
    \/ ListLine
    \/ ListClose
    \/ EncodeByte
    \/ EncodeEOF
    \/ DecodeChar
    \/ DecodeEOF
    \/ POpenIn
    \/ POpenOut
    \/ PCalc

AsciiSpec == InitAscii /\ [][NextAscii]_vars

(* ===================== properties of the heap ========================== *)

HeapFreq(i) == node[array[i]].freq

HeapNodes(arr, sz) == {arr[i] : i \in 0..(sz - 1)}

(* C2: after createAndBuildMinHeap and after every later insertMinHeap /
   extractMin call, every heap position's frequency is at most that of each
   of its children inside [0, size). *)
C2_HeapOrdered ==
    pc # "start" =>
        \A i \in 0..(size - 1) :
            /\ (2 * i + 1 < size => HeapFreq(i) <= HeapFreq(2 * i + 1))
            /\ (2 * i + 2 < size => HeapFreq(i) <= HeapFreq(2 * i + 2))

(* A full heap of three holding an inserted node, after an extraction, with a
   root strictly lighter than a child. *)
C2_Witness ==
    /\ plan = "heap" /\ pc = "loop"
    /\ size = 3 /\ left # NULL
    /\ \E i \in 0..2 : array[i] > n
    /\ HeapFreq(0) < HeapFreq(2)

(* C10: extractMin on a heap of size >= 1 returns a node no heavier than any
   node of the heap before the call, decreases size by exactly 1, and leaves
   in [0, size) exactly the other nodes. *)
C10_ExtractMin ==
    [][HeapExtract =>
          /\ \A i \in 0..(size - 1) : node[left'].freq <= node[array[i]].freq
          /\ size' = size - 1
          /\ left' \in HeapNodes(array, size)
          /\ HeapNodes(array', size') = HeapNodes(array, size) \ {left'}
          /\ Cardinality(HeapNodes(array', size')) = size']_vars

(* An extraction from a heap of three has returned a node strictly lighter
   than the new minimum. *)
C10_Witness ==
    /\ plan = "heap" /\ pc = "loop"
    /\ left # NULL /\ size = 2 /\ capacity = 3
    /\ node[left].freq < HeapFreq(0)
    /\ HeapFreq(0) < HeapFreq(1)

(* ===================== properties of the tree ========================== *)

RECURSIVE Reach(_, _)
Reach(nd, r) ==
    IF r = NULL THEN {} ELSE {r} \cup Reach(nd, nd[r].left) \cup Reach(nd, nd[r].right)

LeavesOf(nd, r) == {x \in Reach(nd, r) : IsLeaf(nd, x)}

InternalsOf(nd, r) == {x \in Reach(nd, r) : ~IsLeaf(nd, x)}

RECURSIVE SumFreq(_, _)
SumFreq(f, k) == IF k = 0 THEN 0 ELSE f[k - 1] + SumFreq(f, k - 1)

(* The tree as a value: shape, items and weights, without the addresses. *)
RECURSIVE Tree(_, _)
Tree(nd, r) ==
    IF r = NULL THEN <<>>
    ELSE [item |-> nd[r].item, freq |-> nd[r].freq,
          left |-> Tree(nd, nd[r].left), right |-> Tree(nd, nd[r].right)]

(* buildHuffmanTree has just returned its root to the running command. *)
JustBuilt == (pc = "encode" /\ src = <<>>) \/ (pc = "decode" /\ dpos = 0)

TreeShape(r) ==
    /\ \A x \in Reach(node, r) : (node[x].left = NULL) <=> (node[x].right = NULL)
    /\ Cardinality(LeavesOf(node, r)) = n
    /\ Cardinality(InternalsOf(node, r)) = n - 1
    /\ \A i \in 0..(n - 1) :
          \E x \in LeavesOf(node, r) :
              /\ node[x].item = AsciiCharacters(n)[i]
              /\ node[x].freq = freq[i]
              /\ \A y \in LeavesOf(node, r) : node[y].item = node[x].item => y = x

(* C3: the tree returned by buildHuffmanTree for n >= 1 pairs has no node with
   exactly one child, n leaves and n-1 internal nodes, and its leaves
   correspond one to one to the input pairs, each with its input weight. *)
C3_TreeShape == JustBuilt => TreeShape(root)

C3_Witness ==
    /\ JustBuilt /\ n = 3 /\ Len(built) = 1
    /\ Cardinality(InternalsOf(node, root)) = 2
    /\ freq[0] > freq[1]

(* C4: in the returned tree every internal node's weight is the sum of its two
   children's weights, and the root's weight is the sum of the n input weights. *)
C4_WeightConservation ==
    JustBuilt =>
        /\ \A x \in InternalsOf(node, root) :
              /\ node[x].left # NULL /\ node[x].right # NULL
              /\ node[x].freq = node[node[x].left].freq + node[node[x].right].freq
        /\ node[root].freq = SumFreq(freq, n)

C4_Witness ==
    /\ JustBuilt /\ n = 3 /\ Len(built) = 2
    /\ node[root].freq = 3 * MaxW
    /\ ~IsLeaf(node, root)

(* The code of a symbol: what the encoder writes for it. *)
Code(s) == PrintHCodeForCharacter(node, root, s, <<>>)

IsPrefix(a, b) == Len(a) <= Len(b) /\ SubSeq(b, 1, Len(a)) = a

(* C5: for every pair of distinct symbols that are leaves of the built tree,
   the bit path of one is not a prefix of the other's. *)
C5_PrefixFree ==
    JustBuilt =>
        \A a \in 0..(n - 1) : \A b \in 0..(n - 1) :
            a # b => ~IsPrefix(Code(a), Code(b))

C5_Witness ==
    /\ JustBuilt /\ n = 3
    /\ Len(Code(0)) = 1 /\ Len(Code(1)) = 2 /\ Len(Code(2)) = 2

(* Weighted path length of the tree under r, r being at depth d. *)
RECURSIVE WPL(_, _, _)
WPL(nd, r, d) ==
    IF r = NULL THEN 0
    ELSE IF IsLeaf(nd, r) THEN nd[r].freq * d
    ELSE WPL(nd, nd[r].left, d + 1) + WPL(nd, nd[r].right, d + 1)

Without(ws, i, j) ==
    [k \in 1..(Len(ws) - 2) |->
        ws[IF k < i THEN k ELSE IF k + 1 < j THEN k + 1 ELSE k + 2]]

MinOf(S) == CHOOSE x \in S : \A y \in S : x <= y

(* The least weighted path length over all binary trees with leaves ws: every
   full binary tree is the result of some sequence of pairwise merges, its
   weighted path length is the sum of its internal weights, and a node with
   one child only lengthens paths. *)
RECURSIVE MinWPL(_)
MinWPL(ws) ==
    IF Len(ws) <= 1 THEN 0
    ELSE MinOf({ws[i] + ws[j] + MinWPL(Append(Without(ws, i, j), ws[i] + ws[j])) :
                    <<i, j>> \in {p \in (1..Len(ws)) \X (1..Len(ws)) : p[1] < p[2]}})

(* C6: for n >= 2 symbols the weighted path length of the returned tree is
   the minimum over all binary trees with those n leaves. *)
C6_Optimal ==
    (n >= 2 /\ JustBuilt) =>
        WPL(node, root, 0) = MinWPL([k \in 1..n |-> freq[k - 1]])

C6_Witness ==
    /\ n = 3 /\ JustBuilt
    /\ freq[0] = 2 /\ freq[1] = 1 /\ freq[2] = 1
    /\ WPL(node, root, 0) = 6

(* C7: two runs of buildHuffmanTree on the same arrays return trees of the
   same shape with the same symbols at corresponding leaves, and so the same
   code for every symbol, also when weights tie. *)
C7_Deterministic ==
    (JustBuilt /\ Len(built) = 2) =>
        /\ Tree(node, built[1]) = Tree(node, built[2])
        /\ \A s \in 0..(n - 1) :
              PrintHCodeForCharacter(node, built[1], s, <<>>)
                  = PrintHCodeForCharacter(node, built[2], s, <<>>)

C7_Witness ==
    /\ JustBuilt /\ Len(built) = 2 /\ n = 3
    /\ built[1] # built[2]
    /\ freq[0] = freq[1] /\ freq[1] = freq[2]

(* ===================== properties of the codec ========================= *)

InAlphabet(B) == \A k \in 1..Len(B) : B[k] \in 0..(n - 1)

(* C1: for an alphabet of at least two symbols (128 in the program), every
   sequence B of alphabet symbols and every table of non-negative weights,
   decoding what the encoder wrote for B gives exactly B. *)
C1_RoundTrip ==
    (plan = "roundtrip" /\ pc = "done" /\ n >= 2 /\ InAlphabet(src)) => dec = src

C1_Witness ==
    /\ plan = "roundtrip" /\ pc = "done" /\ n = 3
    /\ Len(src) = 2 /\ src[1] # src[2] /\ InAlphabet(src)
    /\ Len(enc) = 3
    /\ dec = src

(* C8: for a one-symbol alphabet the root is a childless leaf, the symbol's
   code is empty, and decoding the encoder's output for k occurrences of the
   symbol gives those k symbols. *)
C8_Degenerate ==
    (n = 1 /\ root # NULL) =>
        /\ IsLeaf(node, root)
        /\ Code(0) = <<>>
        /\ (plan = "roundtrip" /\ pc = "done" /\ InAlphabet(src)) => dec = src

(* The character decodeFile is about to read is one the claim calls ignored. *)
Ignored ==
    /\ pc = "decode" /\ dpos < Len(din)
    /\ LET bit == din[dpos + 1]
       IN  \/ bit \notin {"0", "1"}
           \/ bit = "0" /\ node[currentNode].left = NULL
           \/ bit = "1" /\ node[currentNode].right = NULL

(* C9: a character other than '0'/'1', or a '0'/'1' whose child does not
   exist, leaves the position unchanged, writes no byte, and decoding goes on
   with the next character. *)
C9_DecodeTolerance ==
    [][Ignored =>
          /\ currentNode' = currentNode
          /\ dec' = dec
          /\ pc' = "decode"
          /\ dpos' = dpos + 1]_vars

(* ================= properties added for the later claims =============== *)

(* C11: extractMin on an empty heap fails with an EmptyHeapError outcome and
   leaves size and array unchanged; size never wraps below 0 and nothing
   outside the backing storage is read. *)
C11_EmptyExtract ==
    [][HeapExtractEmpty =>
          /\ pc' = "EmptyHeapError"
          /\ size' = size
          /\ array' = array
          /\ size' \in 0..capacity]_vars

(* The root-to-leaf path of node x under r: "0" for left, "1" for right. *)
RECURSIVE PathTo(_, _, _)
PathTo(nd, r, x) ==
    IF r = x THEN <<>>
    ELSE IF x \in Reach(nd, nd[r].left)
         THEN <<"0">> \o PathTo(nd, nd[r].left, x)
         ELSE <<"1">> \o PathTo(nd, nd[r].right, x)

LeafOfSymbol(b) == CHOOSE x \in LeavesOf(node, root) : node[x].item = b

RECURSIVE ConcatPaths(_, _)
ConcatPaths(B, k) ==
    IF k = 0 THEN <<>>
    ELSE ConcatPaths(B, k - 1) \o PathTo(node, root, LeafOfSymbol(B[k]))

(* C12: for input symbols b1..bk of the alphabet the encoder's output is
   exactly path(b1) path(b2) ... path(bk), in input order, made of '0' and '1'
   only, and the file closed at EOF holds nothing after the last code. *)
C12_EncodeFormat ==
    /\ (pc = "encode" /\ InAlphabet(src)) =>
          /\ enc = ConcatPaths(src, Len(src))
          /\ \A k \in 1..Len(enc) : enc[k] \in {"0", "1"}
    /\ (plan = "roundtrip" /\ cmd = "d" /\ pc = "start" /\ InAlphabet(src)) =>
          /\ din = enc
          /\ din = ConcatPaths(src, Len(src))

C12_Witness ==
    /\ plan = "roundtrip" /\ cmd = "d" /\ pc = "start" /\ n = 3
    /\ Len(src) = 2 /\ src[1] # src[2] /\ InAlphabet(src)
    /\ Len(din) = 3

(* The '0'/'1' characters of a file, in order. *)
BitsOf(f) == SelectSeq(f, LAMBDA c : c \in {"0", "1"})

HasCode(bits) == \E s \in 0..(n - 1) : Code(s) # <<>> /\ IsPrefix(Code(s), bits)

FirstSymbol(bits) == CHOOSE s \in 0..(n - 1) : Code(s) # <<>> /\ IsPrefix(Code(s), bits)

(* The symbols of the complete codes at the head of bits, and what is left. *)
RECURSIVE ParseCodes(_)
ParseCodes(bits) ==
    IF HasCode(bits)
    THEN <<FirstSymbol(bits)>>
            \o ParseCodes(SubSeq(bits, Len(Code(FirstSymbol(bits))) + 1, Len(bits)))
    ELSE <<>>

RECURSIVE Remainder(_)
Remainder(bits) ==
    IF HasCode(bits)
    THEN Remainder(SubSeq(bits, Len(Code(FirstSymbol(bits))) + 1, Len(bits)))
    ELSE bits

(* The input of decodeFile has ended inside a code. *)
Truncated ==
    /\ plan = "decode" /\ pc \in {"decode", "done"}
    /\ dpos = Len(din)
    /\ currentNode # root

(* C13: when the input ends with the position at an internal node other than
   the root, decode ends normally, its output is exactly the symbols of the
   codes completed before, and the trailing partial bits give no byte. *)
C13_TruncatedInput ==
    Truncated =>
        /\ ~IsLeaf(node, currentNode)
        /\ dec = ParseCodes(BitsOf(din))
        /\ Remainder(BitsOf(din)) # <<>>
        /\ Remainder(BitsOf(din)) = PathTo(node, root, currentNode)

C13_Witness ==
    /\ Truncated /\ pc = "done" /\ n = 3
    /\ Len(dec) = 1 /\ Len(din) = 3 /\ Len(BitsOf(din)) = 2

(* C17: in every merge step the first-extracted node becomes the left child
   and the second-extracted the right child; they are the two lightest nodes
   of the heap at that step, so weight(left) <= weight(right) at every
   internal node of the tree. *)
C17_MergeOrder ==
    /\ pc = "right" =>
          /\ node[left].freq <= node[right].freq
          /\ \A i \in 0..(size - 1) : node[right].freq <= HeapFreq(i)
    /\ (pc = "loop" /\ Len(node) > 0 /\ ~IsLeaf(node, Len(node))) =>
          /\ node[Len(node)].left = left
          /\ node[Len(node)].right = right
    /\ JustBuilt =>
          \A x \in InternalsOf(node, root) :
              node[node[x].left].freq <= node[node[x].right].freq

C17_Witness ==
    /\ pc = "loop" /\ n = 3 /\ size = 2
    /\ node[Len(node)].left = left /\ node[Len(node)].right = right
    /\ node[left].freq < node[right].freq
    /\ node[right].freq < HeapFreq(1)

(* Merges made by the first call of buildHuffmanTree. *)
Merges == Len(node) - n

C18_Sizes ==
    /\ pc = "loop" => size = n - Merges
    /\ pc = "left" => size = n - Merges - 1
    /\ pc = "right" => size = n - Merges - 2
    /\ pc = "encode" => (Merges = n - 1 /\ size = 0 /\ root # NULL)

(* C18: for every n >= 1 buildHuffmanTree terminates; the heap shrinks by
   exactly one per loop iteration, the loop ends after exactly n-1 merges with
   a singleton heap, and the node returned is that node, the heap left empty. *)
C18_BuildTerminates ==
    /\ []C18_Sizes
    /\ [][ReturnRoot => (size = 1 /\ root' = array[0] /\ size' = 0)]_vars
    /\ (pc = "start") ~> (pc = "encode")

C18_Witness ==
    /\ pc = "encode" /\ n = 3 /\ Merges = 2 /\ size = 0
    /\ root = Len(node)

(* C19: decode writes a byte only in a step in which the position has just
   advanced to a child that is a leaf; a step whose character was ignored
   writes none, so a root that is itself a leaf is never emitted. *)
C19_EmitAfterMove ==
    [][(pc = "decode" /\ dec' # dec) =>
          LET bit == din[dpos + 1]
              child == IF bit = "0" THEN node[currentNode].left
                       ELSE IF bit = "1" THEN node[currentNode].right
                       ELSE NULL
          IN  /\ child # NULL
              /\ IsLeaf(node, child)
              /\ dec' = Append(dec, node[child].item)]_vars

(* ================= properties of the 128-symbol commands =============== *)

(* The line the listing owes symbol value i. *)
ExpectedLine(i) ==
    IF i >= 32 /\ i <= 126 THEN PathTo(node, root, LeafOfSymbol(i)) ELSE <<"No code">>

(* C14: generateAndPrintHuffmanCodes writes one line per symbol value, in
   ascending order, 128 in all: for 32..126 the symbol's complete root-to-leaf
   bit path, for the other 33 values the text "No code". *)
C14_CodeListing ==
    (plan = "ascii" /\ cmd = "s" /\ pc \in {"list", "done"}) =>
        /\ Len(lines) = li
        /\ li > 0 => lines[li] = ExpectedLine(li - 1)
        /\ pc = "done" =>
              /\ li = ASCII_SIZE
              /\ \A i \in 0..(ASCII_SIZE - 1) : lines[i + 1] = ExpectedLine(i)
              /\ Cardinality({i \in 0..(ASCII_SIZE - 1) : lines[i + 1] = <<"No code">>}) = 33

C14_Witness ==
    /\ plan = "ascii" /\ cmd = "s" /\ pc = "done"
    /\ Len(lines) = ASCII_SIZE
    /\ lines[1] = <<"No code">>
    /\ Len(lines[33]) >= 7
    /\ \E i, j \in 33..127 : Len(lines[i]) # Len(lines[j])

(* parent[x]: the node whose child x is, NULL for a root. *)
ParentOf(nd) ==
    [x \in 1..Len(nd) |->
        IF \E p \in 1..Len(nd) : nd[p].left = x \/ nd[p].right = x
        THEN CHOOSE p \in 1..Len(nd) : nd[p].left = x \/ nd[p].right = x
        ELSE NULL]

(* f after f: the parent's parent when f is the parent function. *)
Twice(f) == [x \in DOMAIN f |-> IF f[x] = NULL THEN NULL ELSE f[f[x]]]

(* <<up_0, up_1, ...>>, up_k[x] the ancestor of x that is 2^k levels up (NULL if
   there is none), for 2^k up to span. *)
RECURSIVE JumpTable(_, _)
JumpTable(par, span) ==
    IF span <= 1 THEN <<par>>
    ELSE CHOOSE t \in {Append(j, Twice(j[Len(j)])) : j \in {JumpTable(par, span \div 2)}} : TRUE

(* The number of levels between x and the root, given that it is below 2^k. *)
RECURSIVE Climb(_, _, _)
Climb(t, x, k) ==
    IF k = 0 THEN 0
    ELSE IF t[k][x] # NULL THEN 2 ^ (k - 1) + Climb(t, t[k][x], k - 1)
    ELSE Climb(t, x, k - 1)

LeafOf(s) == CHOOSE x \in 1..Len(node) : IsLeaf(node, x) /\ node[x].item = s

(* The depth of every symbol's leaf (jumps of up to 128 levels reach any depth
   below 256; the arena holds 255 nodes). *)
CodeLengths ==
    CHOOSE f \in {[s \in 0..(ASCII_SIZE - 1) |-> Climb(t, LeafOf(s), Len(t))] :
                     t \in {JumpTable(ParentOf(node), ASCII_SIZE)}} : TRUE

BuiltAscii == plan = "ascii" /\ pc \in {"openin", "openout"}

(* C15: in the tree buildHuffmanTree returns, a symbol of strictly greater
   weight has a code no longer than a symbol of smaller weight; for the table
   a = 3/4, b = 1/4, all others 0, the code of 'a' (97) is strictly shorter than
   the code of 'b' (98).  A code's length is its leaf's depth, which is the
   length of what printHCodeForCharacter derives. *)
C15_Monotone ==
    BuiltAscii =>
        \A len \in {CodeLengths} :
            /\ \A x, y \in 0..(ASCII_SIZE - 1) : freq[x] > freq[y] => len[x] <= len[y]
            /\ freq \in PositiveTables =>
                  \A s \in 0..(ASCII_SIZE - 1) : Len(Code(s)) = len[s]
            /\ freq = TableAaab => len[97] < len[98]

C15_Witness ==
    /\ BuiltAscii
    /\ freq = TableAaab
    /\ CodeLengths[97] = 1
    /\ CodeLengths[98] = 2

(* C16: when a command ends, by returning or through exit(EXIT_FAILURE), every
   file handle it opened has been closed. *)
C16_HandlesClosed ==
    (plan = "ascii" /\ pc \in {"done", "exit_failure"}) => open = {}

(* C20: the item of every internal node is outside the alphabet 0..127, so it
   equals the item of no leaf. *)
C20_Placeholder ==
    BuiltAscii =>
        \A x \in 1..Len(node) :
            ~IsLeaf(node, x) =>
                /\ node[x].item \notin 0..(ASCII_SIZE - 1)
                /\ \A y \in 1..Len(node) : IsLeaf(node, y) => node[y].item # node[x].item

(* ================== properties of the heap operations ================== *)

(* Position k is position a or lies below it in the heap. *)
RECURSIVE Under(_, _)
Under(k, a) == k >= a /\ (k = a \/ Under(CDiv(k - 1, 2), a))

(* C21: minHeapify at position idx, applied to any array: when both children
   exist, are equal in frequency and strictly below the parent, the left child
   (2*idx+1) is the one that comes up and the right child stays; when no child
   is strictly below the parent, nothing is swapped. *)
C21_SiftTieBreak ==
    (plan = "sift" /\ pc = "loop") =>
        \A idx \in 0..(size - 1) :
            LET l == 2 * idx + 1
                r == 2 * idx + 2
                out == MinHeapify(node, array, size, idx)
            IN  /\ (/\ r < size
                    /\ HeapFreq(l) = HeapFreq(r)
                    /\ HeapFreq(l) < HeapFreq(idx)) =>
                       /\ out[idx] = array[l]
                       /\ out[r] = array[r]
                       /\ \A k \in 0..(size - 1) :
                             (k # idx /\ ~Under(k, l)) => out[k] = array[k]
                /\ (/\ l < size => HeapFreq(l) >= HeapFreq(idx)
                    /\ r < size => HeapFreq(r) >= HeapFreq(idx)) => out = array

(* minHeapify(0) has run on the allocation order 1, 2, 3: node 2, the left
   child, is at the top, node 3 where it was. *)
C21_Witness ==
    /\ plan = "sift" /\ pc = "loop" /\ size >= 3
    /\ freq[1] = freq[2] /\ freq[1] < freq[0]
    /\ array[0] = 2 /\ array[2] = 3

(* A step of the heap's client that is a call of insertMinHeap. *)
InsertStep == plan = "heap" /\ pc = "loop" /\ node' # node

(* C22: insertMinHeap adds 1 to size and puts the new node at a position p on
   the path from index size (old) to the top: every position of the path below
   p takes its parent's old node, which is strictly heavier than the new node;
   p is the top or p's parent is not heavier than the new node (so the new
   node is never above an ancestor of equal frequency); every other position
   keeps its node. *)
C22_InsertPlacement ==
    [][InsertStep =>
          LET id == Len(node')
              f == node'[id].freq
          IN  /\ size' = size + 1
              /\ \E p \in 0..size :
                    /\ Under(size, p)
                    /\ array'[p] = id
                    /\ p # 0 => node[array[CDiv(p - 1, 2)]].freq <= f
                    /\ \A k \in 0..size :
                          IF k # p /\ Under(size, k) /\ Under(k, p)
                          THEN /\ array'[k] = array[CDiv(k - 1, 2)]
                               /\ node[array[CDiv(k - 1, 2)]].freq > f
                          ELSE k # p => array'[k] = array[k]]_vars

(* After one extractMin and one insertMinHeap the inserted node has come up
   from the last position to the top, past a heavier node now below. *)
C22_Witness ==
    /\ plan = "heap" /\ pc = "loop" /\ size >= 2
    /\ size = capacity /\ Len(node) = n + 1
    /\ array[0] = Len(node)
    /\ node[array[size - 1]].freq > node[array[0]].freq

(* C23: while buildHuffmanTree runs, the heap's size never exceeds its
   capacity, which is the number of symbols; when insertMinHeap is called the
   size is below the capacity, so no store goes to an index >= capacity. *)
C23_CapacityBound ==
    plan \in {"roundtrip", "decode"} =>
        /\ size <= capacity
        /\ pc \notin {"crashed", "ub"}
        /\ pc \in {"loop", "left", "right"} =>
              capacity = n /\ DOMAIN array = 0..(capacity - 1)
        /\ pc = "right" => size < capacity

(* The first merge of three symbols has been inserted. *)
C23_Witness ==
    /\ plan = "roundtrip" /\ cmd = "e" /\ pc = "loop"
    /\ n = 3 /\ Len(node) = n + 1
    /\ size = 2 /\ array[0] # array[1]

(* The depth of every node of the arena. *)
NodeDepths ==
    CHOOSE f \in {[x \in 1..Len(node) |-> Climb(t, x, Len(t))] :
                     t \in {JumpTable(ParentOf(node), ASCII_SIZE)}} : TRUE

(* C24: in the tree built from the 128 symbols every leaf is at depth at most
   127, and every node that has a child, where printHCodeForCharacter stores
   arr[top] with top the node's depth, is at depth at most 126: top stays
   below the size of the path buffer, int arr[ASCII_SIZE]. *)
C24_PathLength ==
    BuiltAscii =>
        \A d \in {NodeDepths} :
            \A x \in 1..Len(node) :
                /\ d[x] <= ASCII_SIZE - 1
                /\ ~IsLeaf(node, x) => d[x] < ASCII_SIZE - 1

(* The all-zero table: a leaf at depth 127, the bound itself. *)
C24_Witness ==
    /\ BuiltAscii
    /\ freq = TableZero
    /\ \E s \in 0..(ASCII_SIZE - 1) : CodeLengths[s] = ASCII_SIZE - 1

(* ================== properties of the decoder's position =============== *)

(* decodeFile is at the top of its loop, on a tree of at least two symbols. *)
Decoding == pc = "decode" /\ n >= 2

C25_Position ==
    Decoding =>
        /\ currentNode # NULL
        /\ ~IsLeaf(node, currentNode)
        /\ node[currentNode].left # NULL /\ node[currentNode].right # NULL
        /\ dpos = 0 => currentNode = root

C25_Step ==
    (Decoding /\ dpos' = dpos + 1) =>
        LET bit == din[dpos + 1]
            child == IF bit = "0" THEN node[currentNode].left
                     ELSE node[currentNode].right
        IN  /\ bit \in {"0", "1"} =>
                  IF IsLeaf(node, child)
                  THEN dec' = Append(dec, node[child].item) /\ currentNode' = root
                  ELSE dec' = dec /\ currentNode' = child
            /\ dec' # dec => currentNode' = root

(* C25: for a tree of n >= 2 symbols, whenever the decoder is about to read a
   character its position is a node with both children (the root at the start
   of the stream), so every '0' or '1' moves it to a child; it is back at the
   root immediately after every byte it writes. *)
C25_DecodePosition == []C25_Position /\ [][C25_Step]_vars

(* A byte has been written and the decoder has since moved off the root. *)
C25_Witness ==
    /\ Decoding
    /\ Len(dec) >= 1
    /\ currentNode # root
    /\ ~IsLeaf(node, currentNode)

(* ==================== bytes outside the alphabet ======================= *)

(* B without the bytes that are no alphabet symbol. *)
Kept(B) == SelectSeq(B, LAMBDA b : b \in 0..(n - 1))

(* C26: for an alphabet of at least two symbols (128 in the program), a byte
   outside the alphabet matches no leaf: the encoder writes nothing for it and
   goes on without an error, so for an input holding such bytes the encoded
   file is the codes of the other bytes and decoding it gives the input with
   those bytes removed. *)
C26_OutOfAlphabet ==
    (plan = "roundtrip" /\ n >= 2) =>
        /\ pc \notin {"crashed", "ub", "exit_failure"}
        /\ (pc = "encode" /\ ~InAlphabet(src)) =>
              enc = ConcatPaths(Kept(src), Len(Kept(src)))
        /\ (cmd = "d" /\ pc = "done" /\ ~InAlphabet(src)) => dec = Kept(src)

(* A two-byte input whose first byte is outside the alphabet has been encoded
   and decoded. *)
C26_Witness ==
    /\ plan = "roundtrip" /\ cmd = "d" /\ pc = "done" /\ n >= 2
    /\ Len(src) = 2 /\ src[1] = n /\ src[2] \in 0..(n - 1)
    /\ Len(enc) >= 1
    /\ dec = <<src[2]>>

====
